---- MODULE Spec2Model ----
(***************************************************************************)
(* SunshineReggae (sunshineReggaeFinish.py): a one-shot console program    *)
(* that reads an address or a "lat, lon" text, resolves it to a            *)
(* coordinate, and draws a compass, a rotated house and a sun-path arc on  *)
(* a tkinter canvas.                                                       *)
(*                                                                         *)
(* Texts are sequences of one-character strings.  Floats are records       *)
(*   [kind |-> "num", m |-> mantissa, e |-> fractional digits]             *)
(* (the decimal m * 10^-e), [kind |-> "nan"], [kind |-> "inf", m |-> +-1], *)
(* and Python's None is [kind |-> "None"].  Trigonometry is exact on       *)
(* multiples of 90 degrees, the values the floating-point results equal    *)
(* within rounding.                                                        *)
(***************************************************************************)
EXTENDS Integers, Sequences, FiniteSets, TLC

VARIABLES pc,            \* position of main() / of the function harness
          user_input,    \* main: the line read from the console
          lat, lon,      \* main: the pair get_coordinates_from_input returned
          stdout,        \* lines printed so far
          geocodeCalls,  \* calls of geolocator.geocode made so far
          root,          \* the tkinter window: "none", "open" or "closed"
          canvas,        \* drawing primitives issued on the canvas, in order
          angle,         \* draw_scene: the local `angle`
          args,          \* harness: arguments of the function under check
          ret            \* harness: its results

vars == <<pc, user_input, lat, lon, stdout, geocodeCalls, root, canvas,
          angle, args, ret>>

\* ------------------------------------------------------------------ bounds

\* Latitudes -MaxLat..MaxLat are fed to the Sun Model harness.
MaxLat == 12
\* Point sequences of length 0..MaxLen are fed to the rotation harness.
MaxLen == 2

\* ------------------------------------------------------------------ values

None == [kind |-> "None", m |-> 0, e |-> 0]
NaN == [kind |-> "nan", m |-> 0, e |-> 0]
Num(m, e) == [kind |-> "num", m |-> m, e |-> e]
Inf(s) == [kind |-> "inf", m |-> s, e |-> 0]

\* Python's `lat >= 0` on a float: false for nan, decided by the sign otherwise
\* (-0.0 >= 0 is true).
GE0(v) == v.kind \in {"num", "inf"} /\ v.m >= 0
\* Python's `lat < 0`: false for nan as well.
LT0(v) == v.kind \in {"num", "inf"} /\ v.m < 0

\* ------------------------------------------------------------------- text

Digits == {"0", "1", "2", "3", "4", "5", "6", "7", "8", "9"}

DigitVal(c) ==
  CASE c = "0" -> 0 [] c = "1" -> 1 [] c = "2" -> 2 [] c = "3" -> 3
    [] c = "4" -> 4 [] c = "5" -> 5 [] c = "6" -> 6 [] c = "7" -> 7
    [] c = "8" -> 8 [] c = "9" -> 9

\* `"," in user_input`
Contains(s, c) == \E i \in 1..Len(s) : s[i] = c

\* str.split(","): the parts between the commas, k commas giving k+1 parts.
RECURSIVE split(_, _)
split(s, sep) ==
  IF ~Contains(s, sep) THEN <<s>>
  ELSE LET i == CHOOSE k \in 1..Len(s) :
                  s[k] = sep /\ \A j \in 1..(k - 1) : s[j] # sep
       IN <<SubSeq(s, 1, i - 1)>> \o split(SubSeq(s, i + 1, Len(s)), sep)

\* str.strip(): leading and trailing blanks removed.
RECURSIVE lstrip(_)
lstrip(s) == IF s # <<>> /\ Head(s) = " " THEN lstrip(Tail(s)) ELSE s

RECURSIVE rstrip(_)
rstrip(s) ==
  IF s # <<>> /\ s[Len(s)] = " " THEN rstrip(SubSeq(s, 1, Len(s) - 1)) ELSE s

strip(s) == lstrip(rstrip(s))

\* The integer a run of digits denotes.
RECURSIVE DigitsVal(_)
DigitsVal(s) ==
  IF s = <<>> THEN 0
  ELSE 10 * DigitsVal(SubSeq(s, 1, Len(s) - 1)) + DigitVal(s[Len(s)])

\* The digits of s with the decimal point taken out.
RECURSIVE DropDots(_)
DropDots(s) ==
  IF s = <<>> THEN <<>>
  ELSE (IF Head(s) = "." THEN <<>> ELSE <<Head(s)>>) \o DropDots(Tail(s))

\* An unsigned decimal literal: digits with at most one point, one digit at least.
IsDecimal(u) ==
  /\ \A i \in 1..Len(u) : u[i] \in Digits \cup {"."}
  /\ Cardinality({i \in 1..Len(u) : u[i] = "."}) <= 1
  /\ \E i \in 1..Len(u) : u[i] \in Digits

DecimalVal(u, sign) ==
  LET dots == {i \in 1..Len(u) : u[i] = "."}
      e == IF dots = {} THEN 0 ELSE Len(u) - (CHOOSE i \in dots : TRUE)
  IN Num(sign * DigitsVal(DropDots(u)), e)

ValueError == [kind |-> "ValueError", m |-> 0, e |-> 0]

\* float(s) on a text: blanks around it ignored, an optional sign, then a
\* decimal literal or one of nan, inf, infinity; ValueError otherwise.
\* (Exponents, digit-group underscores and upper-case spellings, which float
\* accepts as well, do not occur in the texts below.)
float(s) ==
  LET t == strip(s)
      signed == t # <<>> /\ Head(t) \in {"+", "-"}
      sign == IF t # <<>> /\ Head(t) = "-" THEN -1 ELSE 1
      u == IF signed THEN Tail(t) ELSE t
  IN IF u = <<"n", "a", "n">> THEN NaN
     ELSE IF u \in {<<"i", "n", "f">>,
                    <<"i", "n", "f", "i", "n", "i", "t", "y">>} THEN Inf(sign)
     ELSE IF IsDecimal(u) THEN DecimalVal(u, sign)
     ELSE ValueError

\* ------------------------------------------------------------ geolocation

\* What geolocator.geocode(address) can hand back: a location, or None when
\* the service finds no match.  The service is external; its answers are a
\* nondeterministic choice.
NoMatch == [latitude |-> None, longitude |-> None]
GeoResults ==
  {NoMatch} \cup
  [latitude : {Num(3742, 2), Num(0, 0), Num(-3387, 2)},
   longitude : {Num(-12208, 2), Num(15121, 2)}]

\* get_coordinates, after the geocode call returned `location`.
get_coordinates(location) ==
  IF location # NoMatch THEN <<location.latitude, location.longitude>>
  ELSE <<None, None>>

FormatMsg == "Invalid coordinate format. Use: 37.42, -122.08"

\* Faulty variant: the except clause returns (None, None) without printing.
ParseCoordinates_silent(text) ==
  LET parts == split(text, ",")
      ok == /\ Len(parts) = 2
            /\ float(strip(parts[1])) # ValueError
            /\ float(strip(parts[2])) # ValueError
  IN IF ok
     THEN [lat |-> float(strip(parts[1])), lon |-> float(strip(parts[2])),
           out |-> <<>>, raised |-> FALSE]
     ELSE [lat |-> None, lon |-> None, out |-> <<>>, raised |-> FALSE]

\* Faulty variant: only the float conversions are guarded; the error of
\* unpacking a split of three or more parts leaves the function.
ParseCoordinates_unpack_raises(text) ==
  LET parts == split(text, ",")
  IN IF Len(parts) # 2
     THEN [lat |-> None, lon |-> None, out |-> <<>>, raised |-> TRUE]
     ELSE IF float(strip(parts[1])) # ValueError /\ float(strip(parts[2])) # ValueError
     THEN [lat |-> float(strip(parts[1])), lon |-> float(strip(parts[2])),
           out |-> <<>>, raised |-> FALSE]
     ELSE [lat |-> None, lon |-> None, out |-> <<FormatMsg>>, raised |-> FALSE]

\* Faulty variant: the two parts are read as (longitude, latitude).
ParseCoordinates_swapped(text) ==
  LET parts == split(text, ",")
      ok == /\ Len(parts) = 2
            /\ float(strip(parts[1])) # ValueError
            /\ float(strip(parts[2])) # ValueError
  IN IF ok
     THEN [lat |-> float(strip(parts[2])), lon |-> float(strip(parts[1])),
           out |-> <<>>, raised |-> FALSE]
     ELSE [lat |-> None, lon |-> None, out |-> <<FormatMsg>>, raised |-> FALSE]

\* The try block of get_coordinates_from_input: unpack the split into exactly
\* two parts and convert both; any ValueError prints the format message and
\* yields (None, None).  `raised` tells whether an exception leaves the function.
ParseCoordinates(text) ==
  LET parts == split(text, ",")
      ok == /\ Len(parts) = 2
            /\ float(strip(parts[1])) # ValueError
            /\ float(strip(parts[2])) # ValueError
  IN IF ok
     THEN [lat |-> float(strip(parts[1])), lon |-> float(strip(parts[2])),
           out |-> <<>>, raised |-> FALSE]
     ELSE [lat |-> None, lon |-> None, out |-> <<FormatMsg>>, raised |-> FALSE]

\* Faulty variant: a text with a comma that fails to parse is geocoded too.
UsesGeocoder_fallback(text) ==
  ~Contains(text, ",") \/ ParseCoordinates(text).lat = None

\* The branch of get_coordinates_from_input that delegates to the geocoder.
UsesGeocoder(text) == ~Contains(text, ",")

\* ------------------------------------------------------------- sun model

\* Faulty variant: the equator is put in the Southern hemisphere (lat > 0).
get_sun_direction_strict(l, season) ==
  IF GE0(l) /\ l.m # 0 THEN (IF season = "winter" THEN 180 ELSE 135)
  ELSE (IF season = "winter" THEN 0 ELSE 45)

get_sun_direction(l, season) ==
  IF GE0(l) THEN (IF season = "winter" THEN 180 ELSE 135)
  ELSE (IF season = "winter" THEN 0 ELSE 45)

\* Faulty variant: the equator is put in the Southern hemisphere (lat > 0).
is_northern_hemisphere_strict(l) == GE0(l) /\ l.m # 0

is_northern_hemisphere(l) == GE0(l)

\* --------------------------------------------------------------- geometry

\* math.cos / math.sin of math.radians(a), a a multiple of 90 degrees.
CosDeg(a) ==
  CASE a % 360 = 0 -> 1 [] a % 360 = 90 -> 0
    [] a % 360 = 180 -> -1 [] a % 360 = 270 -> 0

SinDeg(a) ==
  CASE a % 360 = 0 -> 0 [] a % 360 = 90 -> 1
    [] a % 360 = 180 -> 0 [] a % 360 = 270 -> -1

\* Faulty variant: the sine term of qx has the wrong sign.
rotate_points_sign(points, angle_deg, origin) ==
  LET ox == origin[1]
      oy == origin[2]
  IN [i \in 1..Len(points) |->
        LET x == points[i][1]
            y == points[i][2]
        IN <<ox + CosDeg(angle_deg) * (x - ox) + SinDeg(angle_deg) * (y - oy),
             oy + SinDeg(angle_deg) * (x - ox) + CosDeg(angle_deg) * (y - oy)>>]

rotate_points(points, angle_deg, origin) ==
  LET ox == origin[1]
      oy == origin[2]
  IN [i \in 1..Len(points) |->
        LET x == points[i][1]
            y == points[i][2]
        IN <<ox + CosDeg(angle_deg) * (x - ox) - SinDeg(angle_deg) * (y - oy),
             oy + SinDeg(angle_deg) * (x - ox) + CosDeg(angle_deg) * (y - oy)>>]

\* ---------------------------------------------------------------- drawing

Text(x, y, t) ==
  [op |-> "text", pts |-> <<<<x, y>>>>, start |-> 0, extent |-> 0, label |-> t]
Polygon(points, fill) ==
  [op |-> "polygon", pts |-> points, start |-> 0, extent |-> 0, label |-> fill]
Arc(x1, y1, x2, y2, start, extent) ==
  [op |-> "arc", pts |-> <<<<x1, y1>>, <<x2, y2>>>>, start |-> start,
   extent |-> extent, label |-> "orange"]
Oval(x1, y1, x2, y2, fill) ==
  [op |-> "oval", pts |-> <<<<x1, y1>>, <<x2, y2>>>>, start |-> 0,
   extent |-> 0, label |-> fill]

HouseBody(cx, cy) ==
  <<<<cx - 40, cy + 30>>, <<cx + 40, cy + 30>>, <<cx + 40, cy>>, <<cx - 40, cy>>>>
HouseRoof(cx, cy) ==
  <<<<cx - 40, cy>>, <<cx, cy - 40>>, <<cx + 40, cy>>>>
HouseWindow(cx, cy) ==
  <<<<cx + 10, cy + 10>>, <<cx + 30, cy + 10>>,
    <<cx + 30, cy + 25>>, <<cx + 10, cy + 25>>>>

\* The three create_polygon calls of draw_house.
draw_house(cx, cy, angle_deg) ==
  <<Polygon(rotate_points(HouseBody(cx, cy), angle_deg, <<cx, cy>>), "#D2691E"),
    Polygon(rotate_points(HouseRoof(cx, cy), angle_deg, <<cx, cy>>), "#8B0000"),
    Polygon(rotate_points(HouseWindow(cx, cy), angle_deg, <<cx, cy>>), "#ADD8E6")>>

\* The four create_text calls of draw_compass.
draw_compass(w, h) ==
  <<Text(w \div 2, 30, "N"), Text(w \div 2, h - 30, "S"),
    Text(30, h \div 2, "W"), Text(w - 30, h \div 2, "E")>>

\* draw_sun_path: the arc, then the sun marker (an oval of half-width 15).
SunOffset(is_north) == IF is_north THEN -90 ELSE 90

\* Faulty variant: the marker is put at the angle `offset` itself.
draw_sun_path_at_offset(cx, cy, radius, is_north) ==
  LET offset == SunOffset(is_north)
      sx == cx + radius * CosDeg(offset)
      sy == cy + radius * SinDeg(offset)
  IN <<Arc(cx - radius, cy - radius, cx + radius, cy + radius, offset, 180),
       Oval(sx - 15, sy - 15, sx + 15, sy + 15, "yellow")>>

draw_sun_path(cx, cy, radius, is_north) ==
  LET offset == SunOffset(is_north)
      sx == cx + radius * CosDeg(offset + 90)
      sy == cy + radius * SinDeg(offset + 90)
  IN <<Arc(cx - radius, cy - radius, cx + radius, cy + radius, offset, 180),
       Oval(sx - 15, sy - 15, sx + 15, sy + 15, "yellow")>>

\* The point of a tkinter arc at angle a: angles run counter-clockwise from
\* 3 o'clock inside the bounding box, on a surface whose y grows downward.
ArcPoint(arc, a) ==
  LET cx == (arc.pts[1][1] + arc.pts[2][1]) \div 2
      cy == (arc.pts[1][2] + arc.pts[2][2]) \div 2
      r == (arc.pts[2][1] - arc.pts[1][1]) \div 2
  IN <<cx + r * CosDeg(a), cy - r * SinDeg(a)>>

OvalCentre(oval) ==
  <<(oval.pts[1][1] + oval.pts[2][1]) \div 2,
    (oval.pts[1][2] + oval.pts[2][2]) \div 2>>

\* ----------------------------------------------------------------- inputs

\* Comma-free parts a console line is put together from.
Parts ==
  { <<"1", "0">>, <<" ", "-", "9", "0">>, <<"-", "1", "0">>,
    <<"3", "7", ".", "4", "2">>, <<" ", "-", "1", "2", "2", ".", "0", "8">>,
    <<"0">>, <<"-", "0">>, <<"5", ".">>, <<"+", ".", "5">>,
    <<"a", "b", "c">>, <<>>, <<" ">>, <<"1", ".", "2", ".", "3">>,
    <<"1", " ", "2">>, <<"-">>, <<"C", "i", "t", "y">>,
    <<"n", "a", "n">>, <<"i", "n", "f">>, <<" ", "-", "i", "n", "f", " ">> }

\* Parts of the lines with two commas.
FewParts == { <<"1">>, <<" ", "2">>, <<>> }

\* Comma-free lines: place names, the empty line, a lone number.
Names ==
  { <<"S", "t", "a", "n", "f", "o", "r", "d">>, <<"X">>, <<>>, <<"4", "2">> }

\* The lines input() can return.
Texts ==
  Names
  \cup { a \o <<",">> \o b : a \in Parts, b \in Parts }
  \cup { a \o <<",">> \o b \o <<",">> \o c :
           a \in FewParts, b \in FewParts, c \in FewParts }

\* ----------------------------------------------------------------- main()

NoArgs == <<>>
NoRet == <<>>

PromptMsg ==
  "Enter an address (e.g. 'Stanford') or coordinates (e.g. '37.42, 122.16')"
NotFoundMsg == "Could not retrieve coordinates."

Init ==
  /\ pc = "start"
  /\ user_input = <<>>
  /\ lat = None
  /\ lon = None
  /\ stdout = <<>>
  /\ geocodeCalls = 0
  /\ root = "none"
  /\ canvas = <<>>
  /\ angle = -1
  /\ args = NoArgs
  /\ ret = NoRet

\* print(...) at the top of main.
MainPrompt ==
  /\ pc = "start"
  /\ stdout' = Append(stdout, PromptMsg)
  /\ pc' = "input"
  /\ UNCHANGED <<user_input, lat, lon, geocodeCalls, root, canvas, angle,
                 args, ret>>

\* user_input = input("Address or coordinates: "); the prompt ends no line.
MainInput ==
  /\ pc = "input"
  /\ \E t \in Texts : user_input' = t
  /\ pc' = "resolve"
  /\ UNCHANGED <<lat, lon, stdout, geocodeCalls, root, canvas, angle, args, ret>>

\* lat, lon = get_coordinates_from_input(user_input), comma branch.
MainResolveParse ==
  /\ pc = "resolve"
  /\ ~UsesGeocoder(user_input)
  /\ LET r == ParseCoordinates(user_input)
     IN /\ stdout' = stdout \o r.out
        /\ IF r.raised
           THEN pc' = "crashed" /\ UNCHANGED <<lat, lon>>
           ELSE pc' = "check" /\ lat' = r.lat /\ lon' = r.lon
  /\ UNCHANGED <<user_input, geocodeCalls, root, canvas, angle, args, ret>>

\* lat, lon = get_coordinates_from_input(user_input), place-name branch:
\* get_coordinates makes one geocode call and returns its answer.
MainResolveGeocode ==
  /\ pc = "resolve"
  /\ UsesGeocoder(user_input)
  /\ geocodeCalls' = geocodeCalls + 1
  /\ \E location \in GeoResults :
       /\ lat' = get_coordinates(location)[1]
       /\ lon' = get_coordinates(location)[2]
  /\ pc' = "check"
  /\ UNCHANGED <<user_input, stdout, root, canvas, angle, args, ret>>

\* The geocode call raises (network failure): nothing catches it.
MainResolveGeocodeRaises ==
  /\ pc = "resolve"
  /\ UsesGeocoder(user_input)
  /\ geocodeCalls' = geocodeCalls + 1
  /\ pc' = "crashed"
  /\ UNCHANGED <<user_input, lat, lon, stdout, root, canvas, angle, args, ret>>

\* Faulty variant: the `return` after the message is missing.
MainCheck_no_return ==
  /\ pc = "check"
  /\ IF lat = None
     THEN stdout' = Append(stdout, NotFoundMsg)
     ELSE UNCHANGED stdout
  /\ pc' = "scene"
  /\ UNCHANGED <<user_input, lat, lon, geocodeCalls, root, canvas, angle,
                 args, ret>>

\* if lat is None: print(...); return  -- else draw_scene(lat, lon) is entered.
MainCheck ==
  /\ pc = "check"
  /\ IF lat = None
     THEN /\ stdout' = Append(stdout, NotFoundMsg)
          /\ pc' = "done"
     ELSE /\ pc' = "scene"
          /\ UNCHANGED stdout
  /\ UNCHANGED <<user_input, lat, lon, geocodeCalls, root, canvas, angle,
                 args, ret>>

\* ------------------------------------------------------------- draw_scene

CanvasW == 600
CanvasH == 400
SunRadius == 120

\* root = tk.Tk() ... canvas.pack()
SceneOpen ==
  /\ pc = "scene"
  /\ root' = "open"
  /\ pc' = "compass"
  /\ UNCHANGED <<user_input, lat, lon, stdout, geocodeCalls, canvas, angle,
                 args, ret>>

\* draw_compass(canvas, w, h)
SceneCompass ==
  /\ pc = "compass"
  /\ canvas' = canvas \o draw_compass(CanvasW, CanvasH)
  /\ pc' = "house"
  /\ UNCHANGED <<user_input, lat, lon, stdout, geocodeCalls, root, angle,
                 args, ret>>

\* The season draw_scene passes to get_sun_direction.
SceneSeason == "winter"

\* angle = get_sun_direction(lat, season="winter"); draw_house(canvas, cx, cy, angle)
SceneHouse ==
  /\ pc = "house"
  /\ angle' = get_sun_direction(lat, SceneSeason)
  /\ canvas' = canvas \o draw_house(CanvasW \div 2, CanvasH \div 2, angle')
  /\ pc' = "sunpath"
  /\ UNCHANGED <<user_input, lat, lon, stdout, geocodeCalls, root, args, ret>>

\* draw_sun_path(canvas, cx, cy, 120, is_north=is_northern_hemisphere(lat))
SceneSunPath ==
  /\ pc = "sunpath"
  /\ canvas' = canvas \o draw_sun_path(CanvasW \div 2, CanvasH \div 2, SunRadius,
                                       is_northern_hemisphere(lat))
  /\ pc' = "mainloop"
  /\ UNCHANGED <<user_input, lat, lon, stdout, geocodeCalls, root, angle,
                 args, ret>>

\* root.mainloop() returns when the user closes the window; main returns.
SceneMainloop ==
  /\ pc = "mainloop"
  /\ root' = "closed"
  /\ pc' = "done"
  /\ UNCHANGED <<user_input, lat, lon, stdout, geocodeCalls, canvas, angle,
                 args, ret>>

Next ==
  \/ MainPrompt
  \/ MainInput
  \/ MainResolveParse
  \/ MainResolveGeocode
  \/ MainResolveGeocodeRaises
  \/ MainCheck
  \/ SceneOpen
  \/ SceneCompass
  \/ SceneHouse
  \/ SceneSunPath
  \/ SceneMainloop

Spec == Init /\ [][Next]_vars

\* ------------------------------------------------- Sun Model, on its own

Seasons == {"winter", "summer", "spring"}

\* Latitudes handed to get_sun_direction: whole degrees on both sides of the
\* equator, -0.01, the infinities and nan.
SunLats ==
  {Num(m, 0) : m \in (-MaxLat)..MaxLat}
  \cup {Num(-1, 2), Inf(1), Inf(-1), NaN}

InitSun ==
  /\ pc = "sun_call"
  /\ user_input = <<>>
  /\ lat = None
  /\ lon = None
  /\ stdout = <<>>
  /\ geocodeCalls = 0
  /\ root = "none"
  /\ canvas = <<>>
  /\ angle = -1
  /\ args \in [lat : SunLats, season : Seasons]
  /\ ret = NoRet

CallSunDirection ==
  /\ pc = "sun_call"
  /\ ret' = get_sun_direction(args.lat, args.season)
  /\ pc' = "sun_ret"
  /\ UNCHANGED <<user_input, lat, lon, stdout, geocodeCalls, root, canvas,
                 angle, args>>

NextSun == CallSunDirection

SpecSun == InitSun /\ [][NextSun]_vars

\* --------------------------------------------- Geometry Engine, on its own

Coords == {-2, 0, 3}
Points == Coords \X Coords
PointSeqs == UNION {[1..n -> Points] : n \in 0..MaxLen}
Angles == {-90, 0, 90, 180, 270, 450}
Origins == {<<0, 0>>, <<3, -2>>}

InitRotate ==
  /\ pc = "rot_call"
  /\ user_input = <<>>
  /\ lat = None
  /\ lon = None
  /\ stdout = <<>>
  /\ geocodeCalls = 0
  /\ root = "none"
  /\ canvas = <<>>
  /\ angle = -1
  /\ args \in [points : PointSeqs, t1 : Angles, t2 : Angles, origin : Origins]
  /\ ret = NoRet

\* ret = rotate_points(points, t1, origin)
RotateFirst ==
  /\ pc = "rot_call"
  /\ ret' = rotate_points(args.points, args.t1, args.origin)
  /\ pc' = "rot_mid"
  /\ UNCHANGED <<user_input, lat, lon, stdout, geocodeCalls, root, canvas,
                 angle, args>>

\* ret = rotate_points(ret, t2, origin)
RotateSecond ==
  /\ pc = "rot_mid"
  /\ ret' = rotate_points(ret, args.t2, args.origin)
  /\ pc' = "rot_ret"
  /\ UNCHANGED <<user_input, lat, lon, stdout, geocodeCalls, root, canvas,
                 angle, args>>

NextRotate == RotateFirst \/ RotateSecond

SpecRotate == InitRotate /\ [][NextRotate]_vars

\* ================================================================ claims

\* Positions of main at which get_coordinates_from_input has returned.
Resolved == pc \in {"check", "scene", "compass", "house", "sunpath",
                    "mainloop", "done"}
\* A run that ended through the `lat is None` branch.
FailedRun == pc = "done" /\ lat = None
HouseDrawn == Len(canvas) >= 7
SunDrawn == Len(canvas) >= 9
WindowPoly == canvas[7].pts
SunArc == canvas[8]
SunMarker == canvas[9]
HouseCentre == <<CanvasW \div 2, CanvasH \div 2>>
Text_10_m90 == <<"1", "0", ",", " ", "-", "9", "0">>
Text_37_m122 ==
  <<"3", "7", ".", "4", "2", ",", " ", "-", "1", "2", "2", ".", "0", "8">>

\* C1: the window is opened, and anything drawn, only after a coordinate was
\* resolved; a run that resolves to NotFound ends with the not-found message
\* printed, no window created and no primitive issued.
C1_NoRenderOnNotFound ==
  /\ (root # "none" \/ canvas # <<>>) => (Resolved /\ lat # None)
  /\ FailedRun =>
       /\ root = "none"
       /\ canvas = <<>>
       /\ stdout[Len(stdout)] = NotFoundMsg

C1_Witness ==
  FailedRun /\ root = "none" /\ Contains(user_input, ",")

\* C2 as stated: every failing run prints exactly one line after the input
\* was read (the banner being the one line printed before it).
C2_OneDiagnosticLine ==
  FailedRun => Len(stdout) - 1 = 1

\* C2 amended: an unresolved place name prints the not-found line alone; a
\* malformed coordinate text prints the format-error line and then the
\* not-found line.
C2_DiagnosticLines ==
  FailedRun =>
    IF Contains(user_input, ",")
    THEN stdout = <<PromptMsg, FormatMsg, NotFoundMsg>>
    ELSE stdout = <<PromptMsg, NotFoundMsg>>

C2_Witness ==
  FailedRun /\ Contains(user_input, ",") /\ Len(stdout) = 3

\* The text has exactly one comma and both sides are float literals.
TwoFloats(text) ==
  /\ Cardinality({i \in 1..Len(text) : text[i] = ","}) = 1
  /\ \A i \in 1..2 : float(split(text, ",")[i]) # ValueError

\* C3: on a text with a comma, get_coordinates_from_input never raises; when
\* the text is not two float literals it prints the format message and
\* returns (None, None); when it is, it returns the two parsed values, e.g.
\* (37.42, -122.08) for "37.42, -122.08".
C3_CommaTextParsedOrRejected ==
  /\ (pc = "crashed") => ~Contains(user_input, ",")
  /\ (pc = "check" /\ Contains(user_input, ",")) =>
       IF TwoFloats(user_input)
       THEN /\ lat = float(split(user_input, ",")[1])
            /\ lon = float(split(user_input, ",")[2])
            /\ stdout = <<PromptMsg>>
       ELSE /\ lat = None
            /\ lon = None
            /\ stdout = <<PromptMsg, FormatMsg>>
  /\ (pc = "check" /\ user_input = Text_37_m122) =>
       (lat = Num(3742, 2) /\ lon = Num(-12208, 2))

C3_Witness ==
  /\ pc = "check"
  /\ Cardinality({i \in 1..Len(user_input) : user_input[i] = ","}) = 2
  /\ lat = None
  /\ stdout = <<PromptMsg, FormatMsg>>

\* C4: get_sun_direction is the four-case table: 180 / 135 (winter / other)
\* for latitude >= 0, 0 / 45 for latitude < 0, and nothing else.
C4_SunDirectionTable ==
  pc = "sun_ret" =>
    /\ ret \in {0, 45, 135, 180}
    /\ GE0(args.lat) => ret = (IF args.season = "winter" THEN 180 ELSE 135)
    /\ LT0(args.lat) => ret = (IF args.season = "winter" THEN 0 ELSE 45)

C4_Witness ==
  pc = "sun_ret" /\ args.lat = Num(0, 0) /\ args.season = "winter" /\ ret = 180

\* C5 as stated: the run on "10, -90" is a Southern-hemisphere run: angle 0,
\* arc offset +90, the window drawn with its unrotated base coordinates.
C5_SouthernRun ==
  (user_input = Text_10_m90 /\ pc = "mainloop") =>
    /\ ~is_northern_hemisphere(lat)
    /\ angle = 0
    /\ SunArc.start = 90
    /\ WindowPoly = HouseWindow(HouseCentre[1], HouseCentre[2])

\* C5 amended: "10, -90" resolves to latitude 10, longitude -90, a Northern
\* run: angle 180, arc offset -90, the window drawn as the 180-degree
\* rotation of its base coordinates about the house centre.
C5_NorthernRun ==
  (user_input = Text_10_m90 /\ pc = "mainloop") =>
    /\ lat = Num(10, 0)
    /\ lon = Num(-90, 0)
    /\ is_northern_hemisphere(lat)
    /\ angle = 180
    /\ SunArc.start = -90
    /\ WindowPoly = <<<<290, 190>>, <<270, 190>>, <<270, 175>>, <<290, 175>>>>

C5_Witness ==
  user_input = Text_10_m90 /\ pc = "mainloop" /\ angle = 180

\* C6: two rotations about one origin compose to the rotation by the summed
\* angle mod 360; length and order are kept, a rotation by 0 changes nothing,
\* the origin is a fixed point, and a half turn in total mirrors every point
\* through the origin.
C6_RotateComposes ==
  LET P == args.points
      o == args.origin
      total == (args.t1 + args.t2) % 360
  IN /\ pc \in {"rot_mid", "rot_ret"} =>
          /\ Len(ret) = Len(P)
          /\ \A i \in 1..Len(P) : P[i] = o => ret[i] = o
     /\ (pc = "rot_mid" /\ args.t1 = 0) => ret = P
     /\ pc = "rot_ret" =>
          /\ ret = rotate_points(P, total, o)
          /\ total = 0 => ret = P
          /\ total = 180 =>
               \A i \in 1..Len(P) :
                 ret[i] = <<2 * o[1] - P[i][1], 2 * o[2] - P[i][2]>>

C6_Witness ==
  /\ pc = "rot_ret"
  /\ Len(args.points) = 2
  /\ args.t1 = 90
  /\ args.t2 = 450
  /\ ret # args.points

C8_GeocoderCalls ==
  /\ ~Resolved /\ pc # "crashed" => geocodeCalls = 0
  /\ Resolved \/ pc = "crashed" =>
       geocodeCalls = (IF Contains(user_input, ",") THEN 0 ELSE 1)

C8_Witness ==
  FailedRun /\ geocodeCalls = 1

\* C9: the window is drawn on the side of the house the sun angle names on
\* the compass (S label below the centre, N label above it): below the house
\* centre for angle 180, above it for angle 0.
C9_WindowFacesSun ==
  HouseDrawn =>
    /\ angle = 180 =>
         \A i \in 1..Len(WindowPoly) : WindowPoly[i][2] > HouseCentre[2]
    /\ angle = 0 =>
         \A i \in 1..Len(WindowPoly) : WindowPoly[i][2] < HouseCentre[2]

\* C10 as stated: the rendered (angle, arc offset) is (180, -90) exactly when
\* latitude >= 0 and (0, +90) exactly when latitude < 0.
C10_PairBySign ==
  SunDrawn =>
    /\ (angle = 180 /\ SunArc.start = -90) <=> GE0(lat)
    /\ (angle = 0 /\ SunArc.start = 90) <=> LT0(lat)

\* C10 amended: the rendered (angle, arc offset) is (180, -90) exactly when
\* latitude >= 0 and (0, +90) in every other rendering run, that is for
\* latitude < 0 and for the nan latitude; 45 and 135 are never rendered, and
\* two runs that differ in the longitude alone draw the same primitives.
C10_PairByHemisphere ==
  /\ HouseDrawn => angle \in {0, 180}
  /\ SunDrawn =>
       /\ (angle = 180 /\ SunArc.start = -90) <=> GE0(lat)
       /\ (angle = 0 /\ SunArc.start = 90) <=> ~GE0(lat)
       /\ LT0(lat) => (angle = 0 /\ SunArc.start = 90)
       /\ canvas = draw_compass(CanvasW, CanvasH)
                   \o draw_house(HouseCentre[1], HouseCentre[2],
                                 IF GE0(lat) THEN 180 ELSE 0)
                   \o draw_sun_path(HouseCentre[1], HouseCentre[2], SunRadius,
                                    GE0(lat))

C10_Witness ==
  SunDrawn /\ lat = Num(0, 0) /\ angle = 180 /\ SunArc.start = -90

====
